---------------------------- MODULE Spec2Model ----------------------------
(***************************************************************************)
(* Model of the wedding RSVP worker (src/worker/src/index.ts): the name    *)
(* normalisation, the token service, and the request handlers over the     *)
(* invites and rsvps tables.                                               *)
(*                                                                         *)
(* Strings are sequences of one-character strings, so that trim,           *)
(* lower-casing, the two regular-expression replacements and the filters   *)
(* are computed character by character as the code computes them.          *)
(***************************************************************************)
EXTENDS Integers, Sequences, FiniteSets, TLC

(***************************************************************************)
(* Bounds of the model                                                     *)
(***************************************************************************)
\* longest display name fed to normalizeName
MaxLen == 3
\* last instant of the token service's clock, in seconds
MaxTime == 5
\* longest time-to-live a token is issued with, in seconds
MaxTTL == 3
\* requests the worker handles at the same time
MaxInFlight == 2
\* requests the worker receives in one run of the RSVP path
MaxRequests == 2
\* requests the worker receives in one run of the admin routes
MaxAdminRequests == 3
\* requests the whole worker receives in one run
MaxSiteRequests == 4
\* last instant of the clock while RSVPs are submitted, in seconds
MaxClock == 1
\* longest extraGuestNames array a request body carries
MaxExtra == 3

(***************************************************************************)
(* Characters and strings                                                  *)
(***************************************************************************)
\* \s of the regular expressions and the characters trim() removes
WhiteSpace == {" ", "\t"}
\* \p{L}: letters, lower and upper case
LowerLetters == {"a"}
UpperLetters == {"A"}
\* \p{N}
Digits == {"7"}
\* everything else: stripped by /[^\p{L}\p{N}\s]/gu
Punctuation == {"!"}
Alphabet == WhiteSpace \cup LowerLetters \cup UpperLetters \cup Digits \cup Punctuation

\* JavaScript null, kept apart from every string (the empty one included)
Null == <<"<null>">>

RECURSIVE SeqsUpTo(_, _)
SeqsUpTo(S, n) ==
    IF n = 0 THEN {<< >>}
    ELSE LET shorter == SeqsUpTo(S, n - 1)
         IN  shorter \cup {Append(s, c) : s \in {t \in shorter : Len(t) = n - 1}, c \in S}

\* String.prototype.trim
RECURSIVE TrimStart(_)
TrimStart(s) ==
    IF s # << >> /\ Head(s) \in WhiteSpace THEN TrimStart(Tail(s)) ELSE s
RECURSIVE TrimEnd(_)
TrimEnd(s) ==
    IF s # << >> /\ s[Len(s)] \in WhiteSpace
    THEN TrimEnd(SubSeq(s, 1, Len(s) - 1)) ELSE s
Trim(s) == TrimEnd(TrimStart(s))

\* String.prototype.toLowerCase
LowerChar(c) == IF c = "A" THEN "a" ELSE c
ToLowerCase(s) == [i \in 1..Len(s) |-> LowerChar(s[i])]

\* .replace(/[^\p{L}\p{N}\s]/gu, "")
IsKept(c) == c \in LowerLetters \cup UpperLetters \cup Digits \cup WhiteSpace
StripOthers(s) == SelectSeq(s, IsKept)

\* .replace(/\s+/g, " "): every maximal run of whitespace becomes one space
RECURSIVE CollapseSpaces(_)
CollapseSpaces(s) ==
    IF s = << >> THEN << >>
    ELSE IF Head(s) \in WhiteSpace
         THEN <<" ">> \o CollapseSpaces(TrimStart(s))
         ELSE <<Head(s)>> \o CollapseSpaces(Tail(s))

normalizeName(input) ==
    CollapseSpaces(StripOthers(ToLowerCase(Trim(input))))

(***************************************************************************)
(* Token service: minimal JWT (HMAC SHA-256)                               *)
(***************************************************************************)
\* env.JWT_SECRET, and a secret that is not the server's
JWT_SECRET == "jwt-secret"
OtherSecret == "not-the-secret"

\* JavaScript null as returned by verifyJWT
JsNull == [null |-> TRUE]

\* b64url(bytes) / b64urlJson(obj): an injective text encoding of the value
b64url(bytes) == [b64 |-> bytes]
b64urlJson(obj) == b64url(obj)
\* atob + TextDecoder + JSON.parse of a segment
DecodeSegment(seg) == seg.b64

\* hmacSha256(secret, data): the keyed hash, distinct for distinct key or data
hmacSha256(secret, data) == [key |-> secret, data |-> data]

\* timingSafeEqual(a, b): equal lengths and no differing character
timingSafeEqual(a, b) == a = b

\* signJWT(secret, payload, expiresSeconds) at clock reading t; a token is the
\* sequence of its dot-separated segments
signJWT(secret, payload, expiresSeconds, t) ==
    LET header == [alg |-> "HS256", typ |-> "JWT"]
        fullPayload == [role |-> payload.role, iat |-> t, exp |-> t + expiresSeconds]
        part1 == b64urlJson(header)
        part2 == b64urlJson(fullPayload)
        toSign == <<part1, part2>>
        sig == hmacSha256(secret, toSign)
    IN  toSign \o <<b64url(sig)>>

\* verifyJWT(secret, token) at clock reading t: the payload, or null
verifyJWT(secret, token, t) ==
    IF Len(token) # 3 THEN JsNull
    ELSE LET p1 == token[1]
             p2 == token[2]
             sig == token[3]
             toVerify == <<p1, p2>>
             expected == b64url(hmacSha256(secret, toVerify))
         IN  IF ~timingSafeEqual(expected, sig) THEN JsNull
             ELSE LET payload == DecodeSegment(p2)
                  IN  IF "exp" \notin DOMAIN payload \/ payload.exp < t
                      THEN JsNull
                      ELSE payload

(***************************************************************************)
(* State                                                                   *)
(***************************************************************************)
VARIABLES
    nameA, nameB,     \* two display names given to normalizeName
    normA, normB,     \* their normalised names, once computed
    renormA,          \* normalizeName applied to normA, once computed
    now,              \* Math.floor(Date.now() / 1000)
    jwtTok,           \* the token signJWT returned
    jwtRes,           \* what verifyJWT returned for jwtTok, and when
    invites,          \* the rows of table invites
    rsvps,            \* the rows of table rsvps
    req,              \* per worker invocation: where its handler stands, its locals
    resp,             \* the response sent last, with the request it answers
    served,           \* requests received so far
    lastWrite,        \* per invitation: the values bound by the last write to rsvps
    tokens,           \* the tokens POST /admin/login has handed out
    minted            \* the identifiers uuid() has returned

normVars == <<nameA, nameB, normA, normB, renormA>>
jwtVars == <<jwtTok, jwtRes>>
dbVars == <<invites, rsvps>>
httpVars == <<req, resp, served, lastWrite>>
adminVars == <<tokens, minted>>
vars == <<nameA, nameB, normA, normB, renormA, now, jwtTok, jwtRes,
          invites, rsvps, req, resp, served, lastWrite, tokens, minted>>

\* a result not computed yet / a computed result
Pending == [done |-> FALSE, val |-> << >>]
Result(v) == [done |-> TRUE, val |-> v]

\* the parts of the state a specification does not exercise
NormIdle ==
    /\ nameA = << >>
    /\ nameB = << >>
    /\ normA = Pending
    /\ normB = Pending
    /\ renormA = Pending

NoToken == << >>
NotVerified == [done |-> FALSE, at |-> 0, val |-> JsNull]
JwtIdle ==
    /\ jwtTok = NoToken
    /\ jwtRes = NotVerified

\* the identifiers uuid() can return
IdPool == {"i1", "i2"}

\* the worker invocations, each idle or inside one handler
Reqs == 1..MaxInFlight
Idle == [pc |-> "idle"]
\* no response sent yet
NoResponse == [n |-> 0, route |-> "none", status |-> 0, error |-> << >>,
               input |-> [none |-> TRUE]]
\* nothing written to rsvps yet for an invitation
NoWrite == [n |-> 0, row |-> [none |-> TRUE]]

WorkerIdle ==
    /\ invites = {}
    /\ rsvps = {}
    /\ req = [r \in Reqs |-> Idle]
    /\ resp = NoResponse
    /\ served = 0
    /\ lastWrite = [id \in IdPool |-> NoWrite]
    /\ tokens = {}
    /\ minted = {}

(***************************************************************************)
(* normalizeName applied to bounded inputs                                 *)
(***************************************************************************)
Names == SeqsUpTo(Alphabet, MaxLen)

NormInit ==
    /\ nameA \in Names
    /\ nameB \in Names
    /\ normA = Pending
    /\ normB = Pending
    /\ renormA = Pending
    /\ now = 0
    /\ JwtIdle
    /\ WorkerIdle

NormalizeA ==
    /\ ~normA.done
    /\ normA' = Result(normalizeName(nameA))
    /\ UNCHANGED <<nameA, nameB, normB, renormA, now, jwtVars, dbVars, httpVars, adminVars>>

NormalizeB ==
    /\ ~normB.done
    /\ normB' = Result(normalizeName(nameB))
    /\ UNCHANGED <<nameA, nameB, normA, renormA, now, jwtVars, dbVars, httpVars, adminVars>>

RenormalizeA ==
    /\ normA.done
    /\ ~renormA.done
    /\ renormA' = Result(normalizeName(normA.val))
    /\ UNCHANGED <<nameA, nameB, normA, normB, now, jwtVars, dbVars, httpVars, adminVars>>

NormNext == NormalizeA \/ NormalizeB \/ RenormalizeA

SpecNorm == NormInit /\ [][NormNext]_vars

(***************************************************************************)
(* The token service on its own: issue once, let time pass, verify         *)
(***************************************************************************)
JwtInit ==
    /\ NormIdle
    /\ now = 0
    /\ JwtIdle
    /\ WorkerIdle

\* signJWT(env.JWT_SECRET, {role: "admin"}, ttl)
JwtSign ==
    /\ jwtTok = NoToken
    /\ \E ttl \in 1..MaxTTL :
          jwtTok' = signJWT(JWT_SECRET, [role |-> "admin"], ttl, now)
    /\ UNCHANGED <<normVars, now, jwtRes, dbVars, httpVars, adminVars>>

\* a second of wall-clock time passes
JwtTick ==
    /\ now < MaxTime
    /\ now' = now + 1
    /\ UNCHANGED <<normVars, jwtVars, dbVars, httpVars, adminVars>>

\* verifyJWT(env.JWT_SECRET, jwtTok)
JwtVerify ==
    /\ jwtTok # NoToken
    /\ jwtRes' = [done |-> TRUE, at |-> now, val |-> verifyJWT(JWT_SECRET, jwtTok, now)]
    /\ UNCHANGED <<normVars, now, jwtTok, dbVars, httpVars, adminVars>>

JwtNext == JwtSign \/ JwtTick \/ JwtVerify

SpecJWT == JwtInit /\ [][JwtNext]_vars

(***************************************************************************)
(* Storage: tables invites and rsvps                                       *)
(***************************************************************************)
\* a row of invites as POST /admin/invites binds it
InviteRow(id, displayName, allowedGuests, message, createdAt) ==
    [id |-> id, display_name |-> displayName, norm_name |-> normalizeName(displayName),
     allowed_guests |-> allowedGuests, message |-> message, created_at |-> createdAt]

\* SELECT ... FROM invites WHERE id = ? LIMIT 1: the rows found (none or one)
SelectInviteById(id) == {i \in invites : i.id = id}

\* the rsvps rows a LEFT JOIN ... ON r.invite_id = i.id pairs with invitation id
RowsForInvite(id) == {row \in rsvps : row.invite_id = id}

\* JSON.stringify of a list of strings
JsonStringify(list) == [json |-> list]

\* the values POST /public/rsvp binds to its INSERT, from the handler's locals
RsvpRow(l) ==
    [invite_id |-> l.inviteId, primary_name |-> l.primaryName,
     attending |-> IF l.attending THEN 1 ELSE 0,
     extra_guest_names |-> JsonStringify(l.extraGuestNames),
     notes |-> l.notes, submitted_at |-> l.submittedAt, ip |-> l.ip]

\* INSERT ... ON CONFLICT(invite_id) DO NOTHING: the first row stays
UpsertKeepFirst(table, row) ==
    IF \E old \in table : old.invite_id = row.invite_id THEN table ELSE table \cup {row}

\* the upsert with notes and ip left out of the DO UPDATE SET list
UpsertForgetNotes(table, row) ==
    {[row EXCEPT !.notes = old.notes, !.ip = old.ip] :
        old \in {o \in table : o.invite_id = row.invite_id}}
    \cup (IF \E old \in table : old.invite_id = row.invite_id THEN {} ELSE {row})
    \cup {o \in table : o.invite_id # row.invite_id}

\* INSERT INTO rsvps ... ON CONFLICT(invite_id) DO UPDATE SET every other column
Upsert(table, row) ==
    {o \in table : o.invite_id # row.invite_id} \cup {row}

(***************************************************************************)
(* Requests and responses                                                  *)
(*                                                                         *)
(* A request is a record of what it carries: origin (the Origin header),   *)
(* body (the JSON body), authorization, id, ip, and fault (the storage     *)
(* statement of this request that throws, with the message of the error).  *)
(* A part the request does not carry is a field the record does not have.  *)
(***************************************************************************)
\* env.SITE_ORIGIN, and an origin that is not the site's
SITE_ORIGIN == "https://site.example"
OtherOrigin == "https://other.example"
\* req.headers.get("Origin") of a request without the header
NoOrigin == ""

corsHeaders(origin) ==
    [allowOrigin |-> origin,
     allowMethods |-> "GET,POST,DELETE,OPTIONS",
     allowHeaders |-> "Content-Type, Authorization"]

OriginOf(input) == IF "origin" \in DOMAIN input THEN input.origin ELSE NoOrigin

\* the Origin header of the request handed back as it came
allowedOriginEcho(input) ==
    IF OriginOf(input) # NoOrigin THEN OriginOf(input) ELSE SITE_ORIGIN

\* origin && origin === env.SITE_ORIGIN ? origin : env.SITE_ORIGIN
allowedOrigin(input) ==
    IF OriginOf(input) # NoOrigin /\ OriginOf(input) = SITE_ORIGIN
    THEN OriginOf(input)
    ELSE SITE_ORIGIN

\* withCors(resp): the headers set on every JSON response
withCors(input) == corsHeaders(allowedOrigin(input))

\* a JSON body that is the empty object
EmptyObject == [field \in {} |-> TRUE]

\* await req.json() of a request without a body throws this SyntaxError
JsonParseError == [message |-> "Unexpected end of JSON input"]
HasBody(input) == "body" \in DOMAIN input
\* the k-th storage statement of the request throws
FaultAt(input, k) == "fault" \in DOMAIN input /\ input.fault.at = k
StorageError(input) == [message |-> input.fault.message]

\* e?.message || "Server error"
CaughtMessage(e) == IF e.message # "" THEN <<e.message>> ELSE <<"Server error">>

(***************************************************************************)
(* POST /public/rsvp                                                       *)
(***************************************************************************)
\* json(data, {status}): what the handlers answer
NotFoundMsg == <<"Invite not found.">>
MissingFieldsMsg == <<"Missing required fields.">>
TooManyGuestsMsg(allowed) ==
    <<"This invite allows up to ", ToString(allowed), " additional guest(s).">>

\* the check with >= in place of >: a full party is turned away
TooManyGuestsCheckOffByOne(attending, count, allowed) ==
    attending /\ count >= allowed

\* attending && extraGuestNames.length > inv.allowed_guests
TooManyGuestsCheck(attending, count, allowed) ==
    attending /\ count > allowed

\* String(x || "").trim() of each entry, then filter(Boolean); [] when the
\* body has no array
NonEmpty(str) == str # << >>
ExtraGuestNamesOf(body) ==
    IF "extraGuestNames" \notin DOMAIN body THEN << >>
    ELSE SelectSeq([i \in 1..Len(body.extraGuestNames) |-> Trim(body.extraGuestNames[i])],
                   NonEmpty)

\* String(body?.notes || "").trim() || null
NotesOf(body) ==
    IF "notes" \notin DOMAIN body \/ Trim(body.notes) = << >> THEN Null
    ELSE Trim(body.notes)

\* the request bodies and CF-Connecting-IP headers the model submits
RawGuestName(i) ==
    CASE i % 3 = 1 -> <<"a">>
      [] i % 3 = 2 -> <<" ">>
      [] OTHER     -> <<" ", "7">>
RawGuestLists == {[i \in 1..k |-> RawGuestName(i)] : k \in 0..MaxExtra}
Answers ==
    {[attending |-> TRUE, extraGuestNames |-> g] : g \in RawGuestLists}
    \cup {[attending |-> FALSE],
          [attending |-> FALSE, extraGuestNames |-> [i \in 1..MaxExtra |-> RawGuestName(i)]]}
Guests ==
    { [primaryName |-> <<"a">>, notes |-> <<"7", " ">>, ip |-> <<"7">>],
      [primaryName |-> <<" ", "A">>, notes |-> <<" ">>, ip |-> Null] }
BodyOf(id, guest, answer) ==
    IF "extraGuestNames" \in DOMAIN answer
    THEN [inviteId |-> id, primaryName |-> guest.primaryName, notes |-> guest.notes,
          attending |-> answer.attending, extraGuestNames |-> answer.extraGuestNames]
    ELSE [inviteId |-> id, primaryName |-> guest.primaryName,
          attending |-> answer.attending]
\* the guest behind a proxy (no CF-Connecting-IP) answers with one more guest
\* or declines; the other guest sends every answer
AnswersOf(guest) ==
    IF guest.ip = Null
    THEN {[attending |-> TRUE, extraGuestNames |-> << RawGuestName(1) >>],
          [attending |-> FALSE]}
    ELSE Answers
RsvpInputs ==
    UNION {{[body |-> BodyOf(id, g, a), ip |-> g.ip] : id \in IdPool, a \in AnswersOf(g)} :
             g \in Guests}
    \cup {[body |-> [inviteId |-> id, primaryName |-> <<"a">>], ip |-> Null] :
             id \in {"", "i0"}}
    \cup {[body |-> [inviteId |-> "i1", primaryName |-> <<" ">>, attending |-> TRUE], ip |-> Null]}

Respond(route, status, error, input) ==
    [n |-> resp.n + 1, route |-> route, status |-> status, error |-> error,
     input |-> input, headers |-> withCors(input)]

\* the catch of fetch: status 500 with the message of what was thrown
Caught(route, e, input) ==
    [n |-> resp.n + 1, route |-> route, status |-> 500, error |-> CaughtMessage(e),
     input |-> input, headers |-> corsHeaders(SITE_ORIGIN), at |-> now]

\* the runtime gives a new request the first free invocation
FirstFree(r) ==
    /\ req[r].pc = "idle"
    /\ \A q \in Reqs : q < r => req[q].pc # "idle"

\* lines 214-238 for one request: parse the body, check the required fields,
\* read the invitation, check the number of guests, read the clock
RsvpRequest(r, input) ==
    /\ IF ~HasBody(input)
       THEN /\ resp' = Caught("POST /public/rsvp", JsonParseError, input)
            /\ UNCHANGED req
       ELSE
          LET body == input.body
              inviteId == IF "inviteId" \in DOMAIN body THEN body.inviteId ELSE ""
              primaryName == IF "primaryName" \in DOMAIN body
                             THEN Trim(body.primaryName) ELSE << >>
              attending == "attending" \in DOMAIN body /\ body.attending
              extraGuestNames == ExtraGuestNamesOf(body)
              notes == NotesOf(body)
              found == SelectInviteById(inviteId)
          IN  IF inviteId = "" \/ primaryName = << >>
              THEN /\ resp' = Respond("POST /public/rsvp", 400, MissingFieldsMsg, input)
                   /\ UNCHANGED req
              ELSE IF FaultAt(input, 1)
              THEN /\ resp' = Caught("POST /public/rsvp", StorageError(input), input)
                   /\ UNCHANGED req
              ELSE IF found = {}
              THEN /\ resp' = Respond("POST /public/rsvp", 404, NotFoundMsg, input)
                   /\ UNCHANGED req
              ELSE LET inv == CHOOSE i \in found : TRUE
                   IN  IF TooManyGuestsCheck(attending, Len(extraGuestNames), inv.allowed_guests)
                       THEN /\ resp' = Respond("POST /public/rsvp", 400,
                                               TooManyGuestsMsg(inv.allowed_guests), input)
                            /\ UNCHANGED req
                       ELSE /\ req' = [req EXCEPT ![r] =
                                        [pc |-> "upsert", input |-> input,
                                         inviteId |-> inviteId, primaryName |-> primaryName,
                                         attending |-> attending,
                                         extraGuestNames |-> extraGuestNames,
                                         notes |-> notes,
                                         ip |-> IF "ip" \in DOMAIN input THEN input.ip ELSE Null,
                                         submittedAt |-> now,
                                         display_name |-> inv.display_name]]
                            /\ UNCHANGED resp
    /\ UNCHANGED <<normVars, now, jwtVars, dbVars, lastWrite, adminVars>>

\* a guest submits one of the answers
RsvpValidate(r) ==
    /\ FirstFree(r)
    /\ served < MaxRequests
    /\ served' = served + 1
    /\ \E input \in RsvpInputs : RsvpRequest(r, input)

\* the handler without its ctx.waitUntil(sendResend(...)): no mail is started
RsvpUpsertNoMail(r) ==
    /\ req[r].pc = "upsert"
    /\ rsvps' = Upsert(rsvps, RsvpRow(req[r]))
    /\ lastWrite' = [lastWrite EXCEPT ![req[r].inviteId] =
                        [n |-> @.n + 1, row |-> RsvpRow(req[r])]]
    /\ resp' = Respond("POST /public/rsvp", 200, << >>, req[r].input)
    /\ req' = [req EXCEPT ![r] = Idle]
    /\ UNCHANGED <<normVars, now, jwtVars, invites, served, adminVars>>

\* lines 240-286: the upsert runs, the mail is handed to ctx.waitUntil and
\* {ok: true} is answered; an upsert that throws is answered by the catch
RsvpUpsert(r) ==
    /\ req[r].pc = "upsert"
    /\ IF FaultAt(req[r].input, 2)
       THEN /\ resp' = Caught("POST /public/rsvp", StorageError(req[r].input), req[r].input)
            /\ req' = [req EXCEPT ![r] = Idle]
            /\ UNCHANGED <<rsvps, lastWrite>>
       ELSE /\ rsvps' = Upsert(rsvps, RsvpRow(req[r]))
            /\ lastWrite' = [lastWrite EXCEPT ![req[r].inviteId] =
                                [n |-> @.n + 1, row |-> RsvpRow(req[r])]]
            /\ resp' = Respond("POST /public/rsvp", 200, << >>, req[r].input)
            /\ req' = [req EXCEPT ![r] = [pc |-> "mail"]]
    /\ UNCHANGED <<normVars, now, jwtVars, invites, served, adminVars>>

\* the mail awaited by the handler: "Email failed" reaches the catch of fetch
SendResendAwaited(r) ==
    /\ req[r].pc = "mail"
    /\ \E ok \in BOOLEAN :
          IF ok
          THEN /\ req' = [req EXCEPT ![r] = Idle]
               /\ UNCHANGED resp
          ELSE /\ req' = [req EXCEPT ![r] = [pc |-> "mail failed"]]
               /\ resp' = Caught("POST /public/rsvp", [message |-> "Email failed"],
                                 [none |-> TRUE])
    /\ UNCHANGED <<normVars, now, jwtVars, dbVars, served, lastWrite, adminVars>>

\* sendResend settles: the provider answered ok and the promise resolves, or
\* it did not and the promise rejects with "Email failed"
SendResendSettles(r) ==
    /\ req[r].pc = "mail"
    /\ \E ok \in BOOLEAN :
          req' = [req EXCEPT ![r] = IF ok THEN Idle ELSE [pc |-> "mail failed"]]
    /\ UNCHANGED <<normVars, now, jwtVars, dbVars, resp, served, lastWrite, adminVars>>

\* ctx.waitUntil has seen the rejection: the invocation ends
WaitUntilRejected(r) ==
    /\ req[r].pc = "mail failed"
    /\ req' = [req EXCEPT ![r] = Idle]
    /\ UNCHANGED <<normVars, now, jwtVars, dbVars, resp, served, lastWrite, adminVars>>

\* a second passes
Tick ==
    /\ now < MaxClock
    /\ now' = now + 1
    /\ UNCHANGED <<normVars, jwtVars, dbVars, httpVars, adminVars>>

\* the invitations the admin has created before the guests answer
Init ==
    /\ NormIdle
    /\ JwtIdle
    /\ now = 0
    /\ invites = { InviteRow("i1", <<"A", "!">>, 0, Null, 0),
                   InviteRow("i2", <<"7", " ", "a">>, 1, <<"a">>, 0) }
    /\ rsvps = {}
    /\ req = [r \in Reqs |-> Idle]
    /\ resp = NoResponse
    /\ served = 0
    /\ lastWrite = [id \in IdPool |-> NoWrite]
    /\ tokens = {}
    /\ minted = IdPool

Next ==
    \/ \E r \in Reqs : RsvpValidate(r)
    \/ \E r \in Reqs : RsvpUpsert(r)
    \/ \E r \in Reqs : SendResendSettles(r)
    \/ \E r \in Reqs : WaitUntilRejected(r)
    \/ Tick

Spec == Init /\ [][Next]_vars

(***************************************************************************)
(* POST /public/rsvp and its notification, with the background task kept   *)
(* alive by the platform                                                   *)
(***************************************************************************)
\* the answers sent for an invitation: attending with one more guest, or not
\* attending; the first is refused for an invitation that allows no guest
MailAnswers(id) ==
    {[inviteId |-> id, primaryName |-> <<"a">>, attending |-> TRUE,
      extraGuestNames |-> << <<"a">> >>],
     [inviteId |-> id, primaryName |-> <<"a">>, attending |-> FALSE]}
MailRsvp(r) ==
    /\ FirstFree(r)
    /\ served < MaxRequests
    /\ served' = served + 1
    /\ \/ \E id \in IdPool \cup {"i0"} : \E body \in MailAnswers(id) :
             RsvpRequest(r, [body |-> body])
       \/ \E k \in {1, 2} : \E body \in MailAnswers("i2") :
             RsvpRequest(r, [body |-> body, fault |-> [at |-> k, message |-> "D1_ERROR"]])
       \/ RsvpRequest(r, [body |-> EmptyObject])

MailNext ==
    \/ \E r \in Reqs : MailRsvp(r)
    \/ \E r \in Reqs : RsvpUpsert(r)
    \/ \E r \in Reqs : SendResendSettles(r)
    \/ \E r \in Reqs : WaitUntilRejected(r)

\* ctx.waitUntil keeps the invocation alive until the promise of sendResend
\* has settled
SpecMail ==
    Init /\ [][MailNext]_vars /\ \A r \in Reqs : WF_vars(SendResendSettles(r))

(***************************************************************************)
(* POST /admin/login and the protected /admin/invites routes               *)
(***************************************************************************)
\* 60 * 60 * 6: the time-to-live of an admin token, in seconds
TokenTTL == 21600

\* env.ADMIN_PASSWORD_SALT, env.ADMIN_PASSWORD_HASH
ADMIN_PASSWORD_SALT == "salt"
sha256Hex(input) == [sha256 |-> input]
ADMIN_PASSWORD_HASH == sha256Hex(<<ADMIN_PASSWORD_SALT, "right">>)

PasswordRequiredMsg == <<"Password required.">>
InvalidPasswordMsg == <<"Invalid password.">>
UnauthorizedMsg == <<"Unauthorized">>
MissingIdMsg == <<"Missing id">>
DisplayNameRequiredMsg == <<"displayName required">>
AllowedGuestsRangeMsg == <<"allowedGuests must be an integer between 0 and 10.">>

\* the Authorization header: absent, or a scheme followed by credentials
NoHeader == [scheme |-> "", credentials |-> NoToken]

\* getBearer(req): the credentials after "Bearer" (in any letter case), or
\* null (here the empty token) when the header does not match
getBearer(header) ==
    IF header.scheme \in {"Bearer", "bearer"} /\ header.credentials # NoToken
    THEN header.credentials
    ELSE NoToken

\* requireAdmin without the test of the role claim
requireAdminAnyRole(header, t) ==
    LET tok == getBearer(header)
    IN  IF tok = NoToken THEN JsNull ELSE verifyJWT(JWT_SECRET, tok, t)

\* requireAdmin(): the payload of an admin token, or null
requireAdmin(header, t) ==
    LET tok == getBearer(header)
    IN  IF tok = NoToken THEN JsNull
        ELSE LET payload == verifyJWT(JWT_SECRET, tok, t)
             IN  IF payload = JsNull \/ payload.role # "admin" THEN JsNull
                 ELSE payload

\* what a client can put in the header: a token it was given, one of those
\* with the expiry pushed back or the signature cut off, a token signed with
\* another secret, and a token of the server's secret with another role
Tampered(tok) ==
    <<tok[1], b64urlJson([DecodeSegment(tok[2]) EXCEPT !.exp = @ + TokenTTL]), tok[3]>>
Unsigned(tok) == <<tok[1], tok[2]>>
PresentedTokens ==
    tokens
    \cup {Tampered(tok) : tok \in tokens}
    \cup {Unsigned(tok) : tok \in tokens}
    \cup { signJWT(OtherSecret, [role |-> "admin"], TokenTTL, now),
           signJWT(JWT_SECRET, [role |-> "guest"], TokenTTL, now) }
Headers ==
    {NoHeader, [scheme |-> "Bearer", credentials |-> NoToken]}
    \cup {[scheme |-> sch, credentials |-> tok] :
            sch \in {"Bearer", "bearer", "Basic"}, tok \in tokens}
    \cup {[scheme |-> "Bearer", credentials |-> tok] : tok \in PresentedTokens}

AdminRespond(route, status, error, input, t) ==
    [n |-> resp.n + 1, route |-> route, status |-> status, error |-> error,
     input |-> input, headers |-> withCors(input), at |-> t]

\* the input with what the response carries back
With(input, answer) == answer @@ input

\* lines 292-304 for one request
Login(input) ==
    /\ IF ~HasBody(input)
       THEN /\ resp' = Caught("POST /admin/login", JsonParseError, input)
            /\ UNCHANGED tokens
       ELSE
         LET password == IF "password" \in DOMAIN input.body THEN input.body.password ELSE ""
             computed == sha256Hex(<<ADMIN_PASSWORD_SALT, password>>)
         IN  IF password = ""
             THEN /\ resp' = AdminRespond("POST /admin/login", 400, PasswordRequiredMsg, input, now)
                  /\ UNCHANGED tokens
             ELSE IF ~timingSafeEqual(computed, ADMIN_PASSWORD_HASH)
             THEN /\ resp' = AdminRespond("POST /admin/login", 401, InvalidPasswordMsg, input, now)
                  /\ UNCHANGED tokens
             ELSE LET token == signJWT(JWT_SECRET, [role |-> "admin"], TokenTTL, now)
                  IN  /\ resp' = AdminRespond("POST /admin/login", 200, << >>,
                                              With(input, [token |-> token]), now)
                      /\ tokens' = tokens \cup {token}
    /\ UNCHANGED <<normVars, now, jwtVars, dbVars, req, lastWrite, minted>>

Passwords == {"", "right", "wrong"}
AdminLogin ==
    /\ served < MaxAdminRequests
    /\ served' = served + 1
    /\ \E password \in Passwords : Login([body |-> [password |-> password]])

\* lines 316-338 for one request: the invitations with the summary of their
\* responses
RsvpAttendingOf(id) ==
    IF RowsForInvite(id) = {} THEN "null"
    ELSE LET row == CHOOSE r \in RowsForInvite(id) : TRUE
         IN  IF row.attending # 0 THEN "1" ELSE "0"
List(input) ==
    /\ LET header == input.authorization
           admin == requireAdmin(header, now)
       IN  IF admin = JsNull
           THEN resp' = AdminRespond("GET /admin/invites", 401, UnauthorizedMsg, input, now)
           ELSE IF FaultAt(input, 1)
           THEN resp' = Caught("GET /admin/invites", StorageError(input), input)
           ELSE resp' = AdminRespond("GET /admin/invites", 200, << >>,
                          With(input,
                               [invites |->
                                 {[id |-> i.id, displayName |-> i.display_name,
                                   allowedGuests |-> i.allowed_guests, message |-> i.message,
                                   rsvpAttending |-> RsvpAttendingOf(i.id)] : i \in invites}]),
                          now)
    /\ UNCHANGED <<normVars, now, jwtVars, dbVars, req, lastWrite, adminVars>>

AdminList ==
    /\ served < MaxAdminRequests
    /\ served' = served + 1
    /\ \E header \in Headers : List([authorization |-> header])

\* a JSON number: its integer part and its tenths
JsonNumber(whole, tenths) == [whole |-> whole, tenths |-> tenths]
\* a JSON string, and what is not a number
JsonString(text) == [text |-> text]
NaN == [nan |-> TRUE]
\* the number a run of decimal digits spells
DigitValue(c) == 7
RECURSIVE DecimalValue(_)
DecimalValue(digits) ==
    IF digits = << >> THEN 0
    ELSE 10 * DecimalValue(SubSeq(digits, 1, Len(digits) - 1)) + DigitValue(digits[Len(digits)])
\* Number(v): a number is itself; a string is 0 when blank, the number its
\* trimmed text spells, and NaN when it spells none
Number(v) ==
    IF "text" \notin DOMAIN v THEN v
    ELSE LET t == Trim(v.text)
         IN  IF t = << >> THEN JsonNumber(0, 0)
             ELSE IF \A i \in 1..Len(t) : t[i] \in Digits THEN JsonNumber(DecimalValue(t), 0)
             ELSE NaN
NumberIsInteger(x) == "tenths" \in DOMAIN x /\ x.tenths = 0
\* Number(body?.allowedGuests ?? 0)
AllowedGuestsOf(body) ==
    IF "allowedGuests" \notin DOMAIN body THEN JsonNumber(0, 0)
    ELSE Number(body.allowedGuests)
\* body?.message != null ? String(body.message).trim() : null
MessageOf(body) ==
    IF "message" \notin DOMAIN body THEN Null ELSE Trim(body.message)

\* the range check with its upper limit moved to 11
AllowedGuestsRejectedAbove11(allowedGuests) ==
    \/ ~NumberIsInteger(allowedGuests)
    \/ allowedGuests.whole < 0
    \/ allowedGuests.whole > 11

\* !Number.isInteger(allowedGuests) || allowedGuests < 0 || allowedGuests > 10
AllowedGuestsRejected(allowedGuests) ==
    \/ ~NumberIsInteger(allowedGuests)
    \/ allowedGuests.whole < 0
    \/ allowedGuests.whole > 10

\* lines 341-367 for one request
Create(input) ==
    /\ LET header == input.authorization
           admin == requireAdmin(header, now)
       IN  IF admin = JsNull
           THEN /\ resp' = AdminRespond("POST /admin/invites", 401, UnauthorizedMsg, input, now)
                /\ UNCHANGED <<invites, minted>>
           ELSE IF ~HasBody(input)
           THEN /\ resp' = Caught("POST /admin/invites", JsonParseError, input)
                /\ UNCHANGED <<invites, minted>>
           ELSE
             LET body == input.body
                 displayName == IF "displayName" \in DOMAIN body THEN Trim(body.displayName)
                                ELSE << >>
                 allowedGuests == AllowedGuestsOf(body)
                 message == MessageOf(body)
             IN  IF displayName = << >>
                 THEN /\ resp' = AdminRespond("POST /admin/invites", 400,
                                              DisplayNameRequiredMsg, input, now)
                      /\ UNCHANGED <<invites, minted>>
                 ELSE IF AllowedGuestsRejected(allowedGuests)
                 THEN /\ resp' = AdminRespond("POST /admin/invites", 400,
                                              AllowedGuestsRangeMsg, input, now)
                      /\ UNCHANGED <<invites, minted>>
                 ELSE /\ minted # IdPool
                      /\ \E id \in IdPool \ minted :
                           /\ minted' = minted \cup {id}
                           /\ IF FaultAt(input, 1)
                              THEN /\ resp' = Caught("POST /admin/invites",
                                                     StorageError(input), input)
                                   /\ UNCHANGED invites
                              ELSE /\ invites' = invites \cup
                                        {InviteRow(id, displayName, allowedGuests.whole,
                                                   message, now)}
                                   /\ resp' = AdminRespond("POST /admin/invites", 200, << >>,
                                                           With(input, [id |-> id]), now)
    /\ UNCHANGED <<normVars, now, jwtVars, rsvps, req, lastWrite, tokens>>

CreateBodies ==
    {[displayName |-> d, allowedGuests |-> g] :
        d \in {<<" ">>, <<" ", "A", "!">>},
        g \in {JsonNumber(1, 0), JsonNumber(10, 0), JsonNumber(11, 0), JsonNumber(1, 5)}}
    \cup {[displayName |-> <<"7", "a">>, message |-> <<"a", " ">>],
          [allowedGuests |-> JsonNumber(0, 0)]}
\* the requests sent with a header: every body or id with a token the server
\* handed out, a single one with any other header
HoldsToken(header) == header.credentials \in tokens /\ header.scheme # "Basic"
CreateBodiesWith(header) ==
    IF HoldsToken(header) THEN CreateBodies
    ELSE {[displayName |-> <<"7", "a">>, message |-> <<"a", " ">>]}

AdminCreate ==
    /\ served < MaxAdminRequests
    /\ served' = served + 1
    /\ \E header \in Headers : \E body \in CreateBodiesWith(header) :
          Create([authorization |-> header, body |-> body])

\* lines 370-377 for one request: DELETE FROM invites
DeleteInvite(r, input) ==
    /\ LET header == input.authorization
           id == input.id
           admin == requireAdmin(header, now)
       IN  IF admin = JsNull
           THEN /\ resp' = AdminRespond("DELETE /admin/invites", 401, UnauthorizedMsg, input, now)
                /\ UNCHANGED <<invites, req>>
           ELSE IF id = ""
           THEN /\ resp' = AdminRespond("DELETE /admin/invites", 400, MissingIdMsg, input, now)
                /\ UNCHANGED <<invites, req>>
           ELSE IF FaultAt(input, 1)
           THEN /\ resp' = Caught("DELETE /admin/invites", StorageError(input), input)
                /\ UNCHANGED <<invites, req>>
           ELSE /\ invites' = {i \in invites : i.id # id}
                /\ req' = [req EXCEPT ![r] =
                             [pc |-> "delete rsvps", id |-> id, input |-> input,
                              authAt |-> now]]
                /\ UNCHANGED resp
    /\ UNCHANGED <<normVars, now, jwtVars, rsvps, lastWrite, adminVars>>

DeleteIds == IdPool \cup {""}
DeleteIdsWith(header) == IF HoldsToken(header) THEN DeleteIds ELSE {"i1"}
AdminDeleteInvite(r) ==
    /\ FirstFree(r)
    /\ served < MaxAdminRequests
    /\ served' = served + 1
    /\ \E header \in Headers : \E id \in DeleteIdsWith(header) :
          DeleteInvite(r, [authorization |-> header, id |-> id])

\* lines 378-380: DELETE FROM rsvps, then {ok: true}; a statement that throws
\* is answered by the catch, with the invitation already deleted
AdminDeleteRsvps(r) ==
    /\ req[r].pc = "delete rsvps"
    /\ IF FaultAt(req[r].input, 2)
       THEN /\ resp' = Caught("DELETE /admin/invites", StorageError(req[r].input), req[r].input)
            /\ UNCHANGED <<rsvps, lastWrite>>
       ELSE /\ rsvps' = {row \in rsvps : row.invite_id # req[r].id}
            /\ lastWrite' = [lastWrite EXCEPT ![req[r].id] = NoWrite]
            /\ resp' = AdminRespond("DELETE /admin/invites", 200, << >>, req[r].input,
                                    req[r].authAt)
    /\ req' = [req EXCEPT ![r] = Idle]
    /\ UNCHANGED <<normVars, now, jwtVars, invites, served, adminVars>>

\* time passes, up to the next instant observed: the start, and the seconds
\* around the expiry of a token issued at the start
AdminInstants == {0} \cup {TokenTTL + d : d \in -MaxClock..MaxClock}
AdminTick ==
    /\ \E t \in AdminInstants :
         /\ t > now
         /\ \A u \in AdminInstants : u > now => t <= u
         /\ now' = t
    /\ UNCHANGED <<normVars, jwtVars, dbVars, httpVars, adminVars>>

AdminInit ==
    /\ NormIdle
    /\ JwtIdle
    /\ now = 0
    /\ WorkerIdle

AdminNext ==
    \/ AdminLogin
    \/ AdminList
    \/ AdminCreate
    \/ \E r \in Reqs : AdminDeleteInvite(r)
    \/ \E r \in Reqs : AdminDeleteRsvps(r)
    \/ AdminTick

SpecAdmin == AdminInit /\ [][AdminNext]_vars

(***************************************************************************)
(* The other routes: POST /public/find, GET /public/invite, OPTIONS and    *)
(* the default answer                                                      *)
(***************************************************************************)
NameRequiredMsg == <<"Name is required.">>
CheckSpellingMsg == <<"Invite not found. Please check spelling.">>
NoRouteMsg == <<"Not found">>

\* the invitation as the public routes return it
PublicInvite(row) ==
    [id |-> row.id, displayName |-> row.display_name,
     allowedGuests |-> row.allowed_guests, message |-> row.message]

\* SELECT ... FROM invites WHERE norm_name = ? LIMIT 1: any one of the rows
\* with that normalised name
SelectInviteByNorm(norm) == {i \in invites : i.norm_name = norm}

\* lines 162-186 for one request
FindRequest(input) ==
    /\ IF ~HasBody(input)
       THEN resp' = Caught("POST /public/find", JsonParseError, input)
       ELSE LET body == input.body
                name == IF "name" \in DOMAIN body THEN body.name ELSE << >>
                norm == normalizeName(name)
            IN  IF norm = << >>
                THEN resp' = Respond("POST /public/find", 400, NameRequiredMsg, input)
                ELSE IF FaultAt(input, 1)
                THEN resp' = Caught("POST /public/find", StorageError(input), input)
                ELSE IF SelectInviteByNorm(norm) = {}
                THEN resp' = Respond("POST /public/find", 404, CheckSpellingMsg, input)
                ELSE \E row \in SelectInviteByNorm(norm) :
                        resp' = Respond("POST /public/find", 200, << >>,
                                        With(input, [invite |-> PublicInvite(row)]))
    /\ UNCHANGED <<normVars, now, jwtVars, dbVars, req, lastWrite, adminVars>>

\* lines 189-211 for one request
GetInviteRequest(input) ==
    /\ IF input.id = ""
       THEN resp' = Respond("GET /public/invite", 400, MissingIdMsg, input)
       ELSE IF FaultAt(input, 1)
       THEN resp' = Caught("GET /public/invite", StorageError(input), input)
       ELSE IF SelectInviteById(input.id) = {}
       THEN resp' = Respond("GET /public/invite", 404, NotFoundMsg, input)
       ELSE \E row \in SelectInviteById(input.id) :
               resp' = Respond("GET /public/invite", 200, << >>,
                               With(input, [invite |-> PublicInvite(row)]))
    /\ UNCHANGED <<normVars, now, jwtVars, dbVars, req, lastWrite, adminVars>>

\* lines 143-145: the answer to a preflight, headers only
Options(input) ==
    /\ resp' = [n |-> resp.n + 1, route |-> "OPTIONS", status |-> 200, error |-> << >>,
                input |-> input, headers |-> corsHeaders(allowedOrigin(input)),
                bodyless |-> TRUE]
    /\ UNCHANGED <<normVars, now, jwtVars, dbVars, req, lastWrite, adminVars>>

\* line 383: no route matches
NoRoute(input) ==
    /\ resp' = Respond("default", 404, NoRouteMsg, input)
    /\ UNCHANGED <<normVars, now, jwtVars, dbVars, req, lastWrite, adminVars>>

(***************************************************************************)
(* The whole worker: guests and the admin, from any origin, over a store   *)
(* whose statements may throw                                              *)
(***************************************************************************)
\* the Origin header of a request: none, the site's, another site's
SiteOrigins == {NoOrigin, SITE_ORIGIN, OtherOrigin}
\* the requests that write are sent from the other site
WriterOrigins == {OtherOrigin}

\* the k-th statement throws, with a message or without one
StorageFault(k) == [at |-> k, message |-> "D1_ERROR"]
SilentFault(k) == [at |-> k, message |-> ""]

\* no Authorization header, or the bearer token of a login
SiteHeaders == {NoHeader} \cup {[scheme |-> "Bearer", credentials |-> tok] : tok \in tokens}

SiteLoginBodies == {[password |-> "right"], [password |-> "wrong"], EmptyObject}
SiteLogin ==
    /\ served < MaxSiteRequests
    /\ served' = served + 1
    /\ \E o \in SiteOrigins :
          \/ \E body \in SiteLoginBodies : Login([origin |-> o, body |-> body])
          \/ Login([origin |-> o])

\* the display names the admin types, and the names the guests search for
SiteNames == {<<"a">>, <<" ", "A", "!">>, <<"!">>}
SearchedNames == {Trim(d) : d \in SiteNames} \cup {<<"7">>}
SiteFind ==
    /\ served < MaxSiteRequests
    /\ served' = served + 1
    /\ \E o \in SiteOrigins :
          \/ \E name \in SearchedNames : FindRequest([origin |-> o, body |-> [name |-> name]])
          \/ FindRequest([origin |-> o, body |-> EmptyObject])
          \/ FindRequest([origin |-> o])
          \/ \E fault \in {StorageFault(1), SilentFault(1)} :
                FindRequest([origin |-> o, body |-> [name |-> <<"a">>], fault |-> fault])

SiteGetInvite ==
    /\ served < MaxSiteRequests
    /\ served' = served + 1
    /\ \E o \in SiteOrigins :
          \/ \E id \in IdPool \cup {""} : GetInviteRequest([origin |-> o, id |-> id])
          \/ GetInviteRequest([origin |-> o, id |-> "i1", fault |-> StorageFault(1)])

SitePaths == {"/public/rsvp", "/admin/invites", "/nowhere"}
SiteOptions ==
    /\ served < MaxSiteRequests
    /\ served' = served + 1
    /\ \E o \in SiteOrigins : \E path \in SitePaths :
          Options([origin |-> o, method |-> "OPTIONS", path |-> path])

SiteNoRoute ==
    /\ served < MaxSiteRequests
    /\ served' = served + 1
    /\ \E o \in SiteOrigins :
          NoRoute([origin |-> o, method |-> "GET", path |-> "/nowhere"])

\* a guest answers for an invitation: attending with two more guests, or not
\* attending
TwoGuests == << <<"a">>, <<" ", "7">> >>
SiteAnswers(id) ==
    {[inviteId |-> id, primaryName |-> <<"a">>, attending |-> TRUE,
      extraGuestNames |-> TwoGuests],
     [inviteId |-> id, primaryName |-> <<"a">>, attending |-> FALSE]}
SiteRsvp(r) ==
    /\ FirstFree(r)
    /\ served < MaxSiteRequests
    /\ served' = served + 1
    /\ \E o \in WriterOrigins :
          \/ \E id \in IdPool : \E body \in SiteAnswers(id) :
                RsvpRequest(r, [origin |-> o, body |-> body])
          \/ \E id \in IdPool : \E k \in {1, 2} :
                RsvpRequest(r, [origin |-> o, fault |-> StorageFault(k),
                                body |-> [inviteId |-> id, primaryName |-> <<"a">>,
                                          attending |-> TRUE, extraGuestNames |-> TwoGuests]])
          \/ RsvpRequest(r, [origin |-> o, body |-> EmptyObject])
          \/ RsvpRequest(r, [origin |-> o])

SiteList ==
    /\ served < MaxSiteRequests
    /\ served' = served + 1
    /\ \E o \in SiteOrigins : \E header \in SiteHeaders :
          \/ List([origin |-> o, authorization |-> header])
          \/ List([origin |-> o, authorization |-> header, fault |-> StorageFault(1)])

\* the invitations the admin asks for: each name with two guests allowed, one
\* name with counts at and past the limits, as numbers and as text
SiteCounts ==
    {JsonNumber(10, 0), JsonNumber(11, 0), JsonNumber(0 - 1, 0), JsonNumber(1, 5),
     JsonString(<<"7">>), JsonString(<<"7", "7">>), JsonString(<<"a">>)}
SiteCreateBodies ==
    {[displayName |-> d, allowedGuests |-> JsonNumber(2, 0)] : d \in SiteNames \cup {<<" ">>}}
    \cup {[displayName |-> <<"a">>, allowedGuests |-> g] : g \in SiteCounts}
    \cup {[displayName |-> <<"a">>, message |-> <<"a", " ">>], EmptyObject}
SiteCreate ==
    /\ served < MaxSiteRequests
    /\ served' = served + 1
    /\ \E o \in WriterOrigins : \E header \in SiteHeaders :
          \/ \E body \in SiteCreateBodies :
                Create([origin |-> o, authorization |-> header, body |-> body])
          \/ Create([origin |-> o, authorization |-> header])
          \/ Create([origin |-> o, authorization |-> header, fault |-> StorageFault(1),
                     body |-> [displayName |-> <<"a">>, allowedGuests |-> JsonNumber(2, 0)]])

SiteDelete(r) ==
    /\ FirstFree(r)
    /\ served < MaxSiteRequests
    /\ served' = served + 1
    /\ \E o \in WriterOrigins : \E header \in SiteHeaders :
          \/ \E id \in DeleteIds :
                DeleteInvite(r, [origin |-> o, authorization |-> header, id |-> id])
          \/ \E id \in IdPool : \E k \in {1, 2} :
                DeleteInvite(r, [origin |-> o, authorization |-> header, id |-> id,
                                 fault |-> StorageFault(k)])

SiteInit ==
    /\ NormIdle
    /\ JwtIdle
    /\ now = 0
    /\ WorkerIdle

SiteNext ==
    \/ SiteLogin
    \/ SiteFind
    \/ SiteGetInvite
    \/ SiteOptions
    \/ SiteNoRoute
    \/ SiteList
    \/ SiteCreate
    \/ \E r \in Reqs : SiteRsvp(r)
    \/ \E r \in Reqs : RsvpUpsert(r)
    \/ \E r \in Reqs : SendResendSettles(r)
    \/ \E r \in Reqs : WaitUntilRejected(r)
    \/ \E r \in Reqs : SiteDelete(r)
    \/ \E r \in Reqs : AdminDeleteRsvps(r)

SpecSite == SiteInit /\ [][SiteNext]_vars

(***************************************************************************)
(* Properties of normalizeName                                             *)
(***************************************************************************)
\* the words of a display name: punctuation removed, lower-cased, split at
\* whitespace runs (no empty word)
RECURSIVE SplitWords(_, _)
SplitWords(s, word) ==
    IF s = << >> THEN (IF word = << >> THEN << >> ELSE <<word>>)
    ELSE IF Head(s) \in WhiteSpace
         THEN (IF word = << >> THEN << >> ELSE <<word>>) \o SplitWords(Tail(s), << >>)
         ELSE SplitWords(Tail(s), Append(word, Head(s)))
WordsOf(s) == SplitWords(StripOthers(ToLowerCase(s)), << >>)

\* C9: normalizeName is idempotent: normalising a normalised name gives it back.
C9_Idempotent ==
    renormA.done => renormA.val = normA.val

\* C10: two display names have equal normalised names exactly when they have
\* the same sequence of lower-cased words once punctuation is removed.
C10_EqualIffSameWords ==
    (normA.done /\ normB.done) =>
        ((normA.val = normB.val) <=> (WordsOf(nameA) = WordsOf(nameB)))

(***************************************************************************)
(* Properties of the token service                                         *)
(***************************************************************************)
IssuedClaims == DecodeSegment(jwtTok[2])

\* C6: a correctly signed token verifies (verifyJWT returns its claims) exactly
\* when its expiry is strictly after the current time, and is invalid whenever
\* the expiry is at or before the current time.
C6_VerifyIffExpiryAfterNow ==
    jwtRes.done =>
        /\ (IssuedClaims.exp > jwtRes.at) => jwtRes.val = IssuedClaims
        /\ (IssuedClaims.exp <= jwtRes.at) => jwtRes.val = JsNull

(***************************************************************************)
(* Properties of POST /public/rsvp                                         *)
(***************************************************************************)
RowsFor(table, id) == {row \in table : row.invite_id = id}

\* the request answered last: its trimmed primary name, and the number of
\* its extra guest names that are not blank
AnsweredRsvp == resp.route = "POST /public/rsvp"
AnsweredBody == resp.input.body
AnsweredCount ==
    IF "extraGuestNames" \notin DOMAIN AnsweredBody THEN 0
    ELSE Cardinality({i \in 1..Len(AnsweredBody.extraGuestNames) :
                        Trim(AnsweredBody.extraGuestNames[i]) # << >>})
AnsweredInvites == {i \in invites : i.id = AnsweredBody.inviteId}

\* C1: when an accepted submission is written for an invitation that already
\* has a response, the table afterwards holds exactly one row for that
\* invitation and each of its fields is the value of the new submission.
C1_SecondSubmissionReplacesFirst ==
    [][\A r \in Reqs :
         (/\ req[r].pc = "upsert"
          /\ req'[r].pc = "mail"
          /\ RowsFor(rsvps, req[r].inviteId) # {})
         => /\ Cardinality(RowsFor(rsvps', req[r].inviteId)) = 1
            /\ \A row \in RowsFor(rsvps', req[r].inviteId) :
                  /\ row.primary_name = req[r].primaryName
                  /\ row.attending = (IF req[r].attending THEN 1 ELSE 0)
                  /\ row.extra_guest_names = JsonStringify(req[r].extraGuestNames)
                  /\ row.notes = req[r].notes
                  /\ row.submitted_at = req[r].submittedAt
                  /\ row.ip = req[r].ip]_vars

\* a second submission for one invitation has been written and answered
C1_Witness ==
    /\ AnsweredRsvp
    /\ resp.status = 200
    /\ lastWrite[AnsweredBody.inviteId].n = 2
    /\ \E row \in rsvps :
          /\ row.invite_id = AnsweredBody.inviteId
          /\ row.primary_name = Trim(AnsweredBody.primaryName)
          /\ row.submitted_at = 1

\* C2: under any interleaving of concurrent submissions no state has more
\* than one row for an invitation, and the row stored is the one bound by
\* the upsert that ran last.
C2_OneRowLastWriteWins ==
    \A id \in IdPool :
        /\ Cardinality(RowsFor(rsvps, id)) <= 1
        /\ lastWrite[id].n > 0 => RowsFor(rsvps, id) = {lastWrite[id].row}

\* two submissions for one invitation in flight together: the one validated
\* later has written its row, the one validated earlier has yet to write
C2_Witness ==
    \E r1, r2 \in Reqs :
        /\ req[r1].pc = "mail"
        /\ req[r2].pc = "upsert"
        /\ \E row \in RowsFor(rsvps, req[r2].inviteId) :
              row.submitted_at > req[r2].submittedAt

\* C3: every stored response has no more extra guest names than its
\* invitation allows, whatever its attending flag.
C3_ExtraGuestsWithinAllowed ==
    \A row \in rsvps : \A inv \in invites :
        inv.id = row.invite_id =>
            Len(row.extra_guest_names.json) <= inv.allowed_guests

\* C4: a stored response that is not attending has an empty list of extra
\* guest names.
C4_DeclinedHasNoExtraGuests ==
    \A row \in rsvps :
        row.attending = 0 => row.extra_guest_names = JsonStringify(<< >>)

\* C5: an attending submission naming more guests than its invitation allows
\* is answered 400 with a message citing the allowed number, changes no row
\* and schedules no mail; one naming no more than allowed is not rejected.
C5_Answer ==
    (/\ AnsweredRsvp
     /\ AnsweredBody.inviteId # ""
     /\ Trim(AnsweredBody.primaryName) # << >>)
    => \A inv \in AnsweredInvites :
         /\ (AnsweredBody.attending /\ AnsweredCount > inv.allowed_guests)
             => /\ resp.status = 400
                /\ Len(resp.error) = 3
                /\ resp.error[2] = ToString(inv.allowed_guests)
         /\ AnsweredCount <= inv.allowed_guests => resp.status # 400
C5_RejectionChangesNothing ==
    (/\ resp' # resp
     /\ resp'.route = "POST /public/rsvp"
     /\ resp'.status = 400)
    => /\ rsvps' = rsvps
       /\ \A r \in Reqs : req'[r].pc = "mail" => req[r].pc = "mail"
C5_TooManyGuestsRejected ==
    []C5_Answer /\ [][C5_RejectionChangesNothing]_vars

\* two names sent for an invitation that allows one: rejected, nothing stored
C5_Witness ==
    /\ AnsweredRsvp
    /\ resp.status = 400
    /\ AnsweredBody.attending
    /\ AnsweredCount = 2
    /\ resp.error = <<"This invite allows up to ", "1", " additional guest(s).">>
    /\ rsvps = {}

(***************************************************************************)
(* Properties of the admin routes                                          *)
(***************************************************************************)
AdminRoutes == {"GET /admin/invites", "POST /admin/invites", "DELETE /admin/invites"}
AnsweredAdmin == resp.route \in AdminRoutes

\* why the token of a header does not authorise at instant t, or "none" when
\* it is a three-segment token signed with the server's secret, not expired,
\* with role "admin"; a token counts as expired from its expiry instant on
\* (grace 0) or from the second after it (grace 1)
AuthFailure(header, t, grace) ==
    LET tok == header.credentials
    IN  IF header.scheme \notin {"Bearer", "bearer"} \/ tok = NoToken THEN "missing"
        ELSE IF Len(tok) # 3 THEN "malformed"
        ELSE IF tok[3] # b64url(hmacSha256(JWT_SECRET, <<tok[1], tok[2]>>)) THEN "signature"
        ELSE IF DecodeSegment(tok[2]).exp + grace <= t THEN "expired"
        ELSE IF DecodeSegment(tok[2]).role # "admin" THEN "role"
        ELSE "none"
\* expired when the expiry instant is at or before the current time
AtOrBefore == 0
\* expired when the expiry instant is before the current time
Before == 1

\* C7: the /admin/invites routes act only on a request whose bearer token has
\* three segments, the server's signature, an expiry still ahead and role
\* "admin"; every other request is answered 401 and changes no table.
C7_Answer ==
    AnsweredAdmin =>
        (resp.status # 401 <=> AuthFailure(resp.input.authorization, resp.at, AtOrBefore) = "none")
C7_RefusalChangesNothing ==
    (/\ resp' # resp
     /\ resp'.route \in AdminRoutes
     /\ resp'.status = 401)
    => UNCHANGED <<invites, rsvps>>
C7_AdminOnlyWithValidToken ==
    []C7_Answer /\ [][C7_RefusalChangesNothing]_vars

\* C8 as claimed: any two authentication failures answered one after the
\* other carry one and the same message.
C8_OneMessageForAll401 ==
    [][(resp.status = 401 /\ resp'.status = 401) => resp'.error = resp.error]_vars

\* C8 as amended: a protected route answers every missing, malformed, badly
\* signed, past-expiry or wrong-role token with 401 "Unauthorized" and gives
\* no other 401; the login answers a wrong password, and nothing else, with
\* 401 "Invalid password.".
C8_OneMessagePerRoute ==
    /\ AnsweredAdmin =>
         /\ AuthFailure(resp.input.authorization, resp.at, Before) # "none"
              => (resp.status = 401 /\ resp.error = <<"Unauthorized">>)
         /\ resp.status = 401 => resp.error = <<"Unauthorized">>
    /\ resp.route = "POST /admin/login" =>
         /\ resp.input.body.password \notin {"", "right"}
              => (resp.status = 401 /\ resp.error = <<"Invalid password.">>)
         /\ resp.status = 401 => resp.error = <<"Invalid password.">>
    /\ resp.status = 401 => (AnsweredAdmin \/ resp.route = "POST /admin/login")

\* a token the login handed out is refused once its expiry has passed
C8_Witness ==
    /\ AnsweredAdmin
    /\ resp.status = 401
    /\ resp.error = <<"Unauthorized">>
    /\ resp.input.authorization.credentials \in tokens
    /\ AuthFailure(resp.input.authorization, resp.at, Before) = "expired"

(***************************************************************************)
(* Properties of the whole worker                                          *)
(***************************************************************************)
\* C11: POST /admin/invites with a valid token accepts a body only if its
\* trimmed display name is not empty and its allowedGuests is an integer from
\* 0 to 10 (10 is accepted, 11 is answered 400 and inserts no row), so every
\* stored invitation has a non-empty display name and allowed_guests in 0..10.
C11_Stored ==
    \A i \in invites : i.allowed_guests \in 0..10 /\ Trim(i.display_name) # << >>
C11_Answer ==
    (resp.route = "POST /admin/invites" /\ resp.status \in {200, 400}) =>
        LET body == resp.input.body
            named == "displayName" \in DOMAIN body /\ Trim(body.displayName) # << >>
            given == "allowedGuests" \in DOMAIN body
            numeric == given /\ "whole" \in DOMAIN body.allowedGuests
        IN  /\ resp.status = 200 => named
            /\ (resp.status = 200 /\ numeric) =>
                  /\ body.allowedGuests.tenths = 0
                  /\ body.allowedGuests.whole \in 0..10
            /\ (named /\ numeric /\ body.allowedGuests = [whole |-> 10, tenths |-> 0])
                  => resp.status = 200
            /\ (numeric /\ body.allowedGuests = [whole |-> 11, tenths |-> 0])
                  => resp.status = 400
C11_Step ==
    (resp' # resp /\ resp'.route = "POST /admin/invites") =>
        IF resp'.status = 200
        THEN \E i \in invites' :
                /\ i.id = resp'.input.id
                /\ i.allowed_guests \in 0..10
                /\ invites' = invites \cup {i}
        ELSE invites' = invites
C11_CreateAcceptsZeroToTen ==
    [](C11_Stored /\ C11_Answer) /\ [][C11_Step]_vars

\* an invitation allowing ten guests is stored and one asking for eleven has
\* just been refused
C11_Witness ==
    /\ resp.route = "POST /admin/invites"
    /\ resp.status = 400
    /\ "allowedGuests" \in DOMAIN resp.input.body
    /\ resp.input.body.allowedGuests = [whole |-> 11, tenths |-> 0]
    /\ \E i \in invites : i.allowed_guests = 10

\* C12: a request without a body is handled as the same request with the body
\* {}: POST /public/find, /public/rsvp and /admin/login answer their 400
\* ("Name is required.", "Missing required fields.", "Password required."),
\* never a 500.
C12_NoBodyAsEmptyObject ==
    (/\ resp.route \in {"POST /public/find", "POST /public/rsvp", "POST /admin/login"}
     /\ "body" \notin DOMAIN resp.input)
    => /\ resp.status = 400
       /\ resp.route = "POST /public/find" => resp.error = <<"Name is required.">>
       /\ resp.route = "POST /public/rsvp" => resp.error = <<"Missing required fields.">>
       /\ resp.route = "POST /admin/login" => resp.error = <<"Password required.">>

\* C13: a failure thrown inside a handler (a storage statement, the parse of
\* the body) is caught once and answered 500 with the cross-origin headers and
\* one message that is the same whatever was thrown; the request that failed
\* is not run again.
C13_Headers ==
    resp.status = 500 => resp.headers = corsHeaders(SITE_ORIGIN)
C13_SameMessage ==
    (resp.status = 500 /\ resp'.status = 500) => resp'.error = resp.error
C13_NotRetried ==
    (resp' # resp /\ resp'.status = 500) =>
        \A r \in Reqs : req'[r] # req[r] => req'[r] = Idle
C13_CaughtOnceGeneric ==
    []C13_Headers /\ [][C13_SameMessage /\ C13_NotRetried]_vars

\* C14: every response (success, 400, 401, 404, the default 404, the caught
\* 500 and the answer to OPTIONS) carries the access-control headers, with
\* Access-Control-Allow-Origin equal to SITE_ORIGIN whatever Origin header the
\* request had.
C14_EveryResponseAllowsSiteOrigin ==
    resp.n > 0 =>
        /\ resp.headers.allowOrigin = SITE_ORIGIN
        /\ resp.headers.allowMethods = "GET,POST,DELETE,OPTIONS"
        /\ resp.headers.allowHeaders = "Content-Type, Authorization"

\* a preflight from another site, answered while an RSVP from that site is
\* about to be written
C14_Witness ==
    /\ resp.route = "OPTIONS"
    /\ resp.input.origin = OtherOrigin
    /\ resp.headers.allowOrigin = SITE_ORIGIN
    /\ \E r \in Reqs : req[r].pc = "upsert" /\ req[r].input.origin = OtherOrigin

\* C15: every accepted POST /public/rsvp starts exactly one notification, after
\* its upsert and together with its 200 answer, which does not wait for it; a
\* rejected submission starts none; and a notification that was started
\* eventually settles, as sent or as failed.
C15_StartedByAccept ==
    \A r \in Reqs :
        (req'[r].pc = "mail" /\ req[r].pc # "mail") =>
            /\ req[r].pc = "upsert"
            /\ resp' # resp
            /\ resp'.route = "POST /public/rsvp"
            /\ resp'.status = 200
            /\ resp'.input = req[r].input
            /\ \E row \in rsvps' :
                  /\ row.invite_id = req[r].inviteId
                  /\ row.submitted_at = req[r].submittedAt
            /\ \A q \in Reqs \ {r} : req'[q] = req[q]
C15_OnePerAnswer ==
    (resp' # resp /\ resp'.route = "POST /public/rsvp") =>
        IF resp'.status = 200
        THEN \E r \in Reqs : req[r].pc = "upsert" /\ req'[r].pc = "mail"
        ELSE \A r \in Reqs : req'[r].pc = "mail" => req[r].pc = "mail"
C15_NotificationStartsAndSettles ==
    /\ [][C15_StartedByAccept /\ C15_OnePerAnswer]_vars
    /\ \A r \in Reqs : (req[r].pc = "mail") ~> (req[r].pc \in {"idle", "mail failed"})

\* {ok: true} has been answered and the notification has not settled yet
C15_Witness ==
    /\ resp.route = "POST /public/rsvp"
    /\ resp.status = 200
    /\ \E r \in Reqs : req[r].pc = "mail"
    /\ \E row \in rsvps : row.invite_id = resp.input.body.inviteId

\* C16: a notification that fails changes nothing the guest or the store
\* sees: the step in which it fails, and the step that ends its invocation,
\* leave the last response (the 200 included) and the tables as they were,
\* send no 500, and start no other notification.
C16_Fails(r) == req[r].pc = "mail" /\ req'[r].pc = "mail failed"
C16_Ends(r) == req[r].pc = "mail failed" /\ req'[r] # req[r]
C16_FailedMailChangesNothing ==
    [][\A r \in Reqs :
         /\ C16_Fails(r) =>
               /\ resp' = resp
               /\ rsvps' = rsvps
               /\ invites' = invites
               /\ \A q \in Reqs \ {r} : req'[q] = req[q]
         /\ C16_Ends(r) =>
               /\ req'[r] = Idle
               /\ resp' = resp
               /\ rsvps' = rsvps
               /\ \A q \in Reqs \ {r} : req'[q] = req[q]]_vars

\* the notification of the submission answered last has failed: the answer is
\* the 200 and the row is the one its upsert wrote
C16_Witness ==
    /\ resp.route = "POST /public/rsvp"
    /\ resp.status = 200
    /\ \E r \in Reqs : req[r].pc = "mail failed"
    /\ \A r \in Reqs : req[r].pc \in {"idle", "mail failed"}
    /\ \E row \in rsvps :
          /\ row.invite_id = resp.input.body.inviteId
          /\ row = lastWrite[row.invite_id].row

\* C17: in the list of GET /admin/invites the rsvpAttending of an invitation
\* is null when it has no response, 0 when the response declines, and 1 + the
\* number of stored extra guests when it attends (3 for an invitation created
\* with allowedGuests 2 and answered with two extra guests).
AttendeesOf(id) ==
    IF RowsFor(rsvps, id) = {} THEN {"null"}
    ELSE {IF row.attending = 1 THEN ToString(1 + Len(row.extra_guest_names.json)) ELSE "0" :
            row \in RowsFor(rsvps, id)}
C17_ListCountsAttendees ==
    [][(resp' # resp /\ resp'.route = "GET /admin/invites" /\ resp'.status = 200) =>
          \A entry \in resp'.input.invites :
              entry.rsvpAttending \in AttendeesOf(entry.id)]_vars

\* C18: whenever no request is in progress, every row of rsvps belongs to a
\* stored invitation, under any interleaving of POST /public/rsvp with DELETE
\* /admin/invites and also when the second DELETE statement throws.
NoRequestInProgress ==
    \A r \in Reqs : req[r].pc \in {"idle", "mail", "mail failed"}
C18_NoOrphanRsvp ==
    NoRequestInProgress =>
        \A row \in rsvps : \E i \in invites : i.id = row.invite_id

\* C19: every stored invitation is found by its own display name: POST
\* /public/find with that name answers 200 with the id of that invitation (not
\* 400, not 404, not another invitation), also when another invitation has the
\* same normalised name and when the name is punctuation only.
C19_FoundByOwnName ==
    [][(/\ resp' # resp
        /\ resp'.route = "POST /public/find"
        /\ "fault" \notin DOMAIN resp'.input
        /\ "body" \in DOMAIN resp'.input
        /\ "name" \in DOMAIN resp'.input.body)
       => \A i \in invites :
             i.display_name = resp'.input.body.name
                => (resp'.status = 200 /\ resp'.input.invite.id = i.id)]_vars

=============================================================================
